---- MODULE Spec2Model ----
(***************************************************************************)
(* PiPlaneMonitorService (src/services/monitor_service.py): the roster of  *)
(* tracked aircraft, the classification of a snapshot into new and         *)
(* existing aircraft, the expiry of old aircraft, and the fan-out of new   *)
(* arrivals to the console, LCD and OLED queues, each drained by its own   *)
(* consumer thread.  One monitor thread and up to three consumer threads   *)
(* interleave; a lock is held by at most one of them.                      *)
(*                                                                         *)
(* Steps of the monitor thread that no other thread can observe are taken  *)
(* together with the next step that one can: the read, the classification  *)
(* and the update of the roster end with the deletion of the old aircraft  *)
(* (the consumers read the roster only to ask whether a queued hex is a    *)
(* key, and no key that is queued is added or deleted before); the three   *)
(* queues are cleaned in one step and filled in one step (a consumer       *)
(* touches its own queue only, so its steps in between can be moved after  *)
(* them).                                                                  *)
(***************************************************************************)
EXTENDS Integers, Sequences, FiniteSets, TLC

\* ------------------------------------------------------------------ bounds
\* The clock stops advancing past MaxTime (three poll cycles), and past
\* MaxTimeDisplays (two poll cycles) when an LCD or an OLED is attached; a
\* snapshot has at most MaxSnapshotLen entries.
MaxTime == 601
MaxTimeDisplays == 301
MaxSnapshotLen == 2

\* Where stop requests, the menu of main and the single steps of the roster
\* update are modelled, a snapshot has at most MaxShortSnapshotLen entries,
\* and no start_monitoring is made while MaxThreads loops of one role are
\* alive.
MaxShortSnapshotLen == 1
MaxThreads == 2

\* Where each datetime.now() is a reading of its own, the clock advances by at
\* most MaxClockStep between two readings and is read up to MaxClock, and a
\* record holds at most MaxPositions positions.
MaxClockStep == 1
MaxClock == 4
MaxPositions == 2

\* No add_aircraft is called on a BaseDisplayService whose queue holds
\* MaxServiceQueue entries, and display_idle_message is called at most
\* MaxIdleCalls times between two calls of _process_aircraft.
MaxServiceQueue == 3
MaxIdleCalls == 3

\* The expiry threshold of _cleanup_old_aircrafts, in seconds.
ExpirySeconds == 300

\* Seconds that pass between two poll cycles (sleep plus processing).  Two
\* gaps give the ages 300 (not yet old) and 301 (old).
Gaps == {300, 301}

\* ------------------------------------------------------------------ values
Hexes == {"a", "b"}
\* aircraft.get("hex") of an entry without the key is None; both None and ""
\* are falsy.
MissingHex == "<missing>"
Truthy(hex_code) == hex_code # "" /\ hex_code # MissingHex

\* A flight is a string, modelled as the sequence of its characters; an entry
\* may lack the key, or hold JSON null.
MissingKey == <<"<missing>">>
NoneValue == <<"<None>">>
Flights == {MissingKey, NoneValue, <<>>, <<" ">>, <<" ", "U">>}

Entries ==
    [hex : Hexes, flight : Flights]
        \cup [hex : {MissingHex, ""}, flight : {<<" ", "U">>}]

Snapshots == UNION {[1..n -> Entries] : n \in 0..MaxSnapshotLen}

\* What the file at file_path can be when it is read.
FileStates ==
    [kind : {"missing", "invalid_json", "permission_denied"},
     keys : {{}}, aircraft : {<<>>}]
        \cup [kind : {"dict"}, keys : {{}, {"now"}}, aircraft : {<<>>}]
        \cup [kind : {"dict"}, keys : {{"now", "aircraft"}}, aircraft : Snapshots]

\* Snapshots of well-formed entries of three aircraft, and a missing file: the
\* inputs under which the order within a queue is observed.
OrderEntries == [hex : {"a", "b", "c"}, flight : {<<" ", "U">>}]

OrderFileStates ==
    [kind : {"missing"}, keys : {{}}, aircraft : {<<>>}]
        \cup [kind : {"dict"}, keys : {{"now", "aircraft"}},
              aircraft : UNION {[1..n -> OrderEntries] : n \in 0..MaxSnapshotLen}]

\* Entries with a flight, with or without lat and lon.
TimedEntries ==
    [hex : Hexes \cup {""}, flight : {<<" ", "U">>}, position : BOOLEAN]

ShortFileStates ==
    {file \in FileStates : Len(file.aircraft) <= MaxShortSnapshotLen}

\* Short snapshots of well-formed entries of the aircraft a and b, and a
\* missing file: the inputs under which the menu of main is modelled.
MenuFileStates ==
    {file \in OrderFileStates :
        /\ Len(file.aircraft) <= MaxShortSnapshotLen
        /\ \A i \in DOMAIN file.aircraft : file.aircraft[i].hex \in Hexes}

None == [kind |-> "None", keys |-> {}, aircraft |-> <<>>]
NoAircraft == [hex |-> MissingHex, flight |-> MissingKey]
EmptyHistory == [h \in {} |-> 0]

Sinks == {"console", "lcd", "oled"}
\* The sinks with a controller.
Displays == {"lcd", "oled"}
\* The threads of one start_monitoring: monitor_loop and the display loops.
Roles == {"monitor"} \cup Sinks
\* list_known_aircraft is not running.
NotListing == [pc |-> "idle", total |-> 0, items |-> EmptyHistory]
\* main has registered its signal handler and entered its try block.
StartedProcess ==
    [alive |-> TRUE, signal |-> "none", stop_monitoring |-> FALSE, cleanup |-> {}]
\* BaseDisplayService.__init__, and no call of a method in progress.  Of a
\* subclass, LCDDisplayService or OLEDDisplayService, last_state is its
\* _last_state.  History: last_call is the last of start() and stop() that
\* was called; idle_calls counts the calls of display_idle_message, and
\* idle_returned those that returned, since the last _process_aircraft.
NewDisplayService ==
    [class |-> "BaseDisplayService",
     queue |-> <<>>, queue_lock |-> "free", exit_requested |-> FALSE,
     thread |-> "none", aircraft |-> NoAircraft, aircraft_history |-> {},
     adding |-> NoAircraft, existing_hex_codes |-> {},
     last_state |-> "idle", last_call |-> "none",
     idle_calls |-> 0, idle_returned |-> 0]
\* PiPlaneTrackerConfig: get_aircraft_timeout() with no alerts_aircraft_timeout
\* in the file.
DefaultConfig == [alerts_aircraft_timeout |-> 300]
\* The callbacks registered with add_alert_callback, in the order of
\* alert_callbacks.
Callbacks == {"first", "second"}
\* AirplaneAlertSystem.__init__ (PiPlaneMonitor.__init__ of src/monitor.py
\* alike, the keys of its aircraft_history being its known aircraft), two
\* callbacks added.  History, of the last check_for_new_aircraft: its list
\* new_aircraft when it ended, whether it raised, for each callback the
\* arguments of its invocations, and the callbacks whose exception
\* _trigger_alerts caught; of all calls, the hex codes that were passed to the
\* callbacks.
NewAlertSystem ==
    [known_aircraft |-> {}, new_aircraft |-> <<>>, raised |-> FALSE,
     invoked |-> [c \in Callbacks |-> <<>>], caught |-> {}, alerted |-> {}]
\* alert_cooldown of PiPlaneSoundAlertService.__init__, in seconds.
AlertCooldown == 1
\* What alert_type can be for audio_thread: its two types, and any other.
AlertTypes == {"buzzer", "mp3", "unknown"}
\* PiPlaneSoundAlertService.__init__, at a time.time() after the epoch.  With
\* it the thread that calls play_aircraft_alert (caller, and the result of
\* its last call) and the audio threads the calls have started.
NewSoundAlertService ==
    [alert_type |-> "mp3", last_alert_time |-> 0, time |-> AlertCooldown,
     caller |-> "idle", result |-> "none", playbacks |-> <<>>]
\* rate_limit_seconds of HexDBAPI.__init__ and OpenSkyAPI.__init__,
\* api_rate_limit of FlightDataEnhancer.__init__, in seconds; the clock of a
\* client is counted in ticks, TicksPerSecond to the second.
RateLimitSeconds == 1
TicksPerSecond == 2
RateLimit == RateLimitSeconds * TicksPerSecond
ApiClasses == {"HexDBAPI", "OpenSkyAPI", "FlightDataEnhancer"}
\* HexDBAPI.__init__, OpenSkyAPI.__init__, FlightDataEnhancer.__init__, at
\* a time.time() after the epoch: last_request_time is _last_request_time,
\* or last_api_call, and cache holds the keys of the cache, whose entries stay
\* valid for the 300 s of cache_timeout.  History: the times at which the last
\* two lookups that missed the cache left their rate limiting.
NewClient(class) ==
    [class |-> class, last_request_time |-> 0, time |-> RateLimit,
     cache |-> {}, issued |-> <<>>, result |-> "none"]
\* The order of queue_configs in _update_new_aircrafts_queue.
queue_configs == <<"console", "lcd", "oled">>

VARIABLES
    now,                 \* datetime.now(), in seconds
    aircraft_history,    \* hex -> [first_seen, last_seen, flight]
    running,
    exit_requested,
    lcd_controller,      \* TRUE: a controller was given; FALSE: None
    oled_controller,
    console_queue,
    lcd_queue,
    oled_queue,
    console_queue_lock,  \* "free", or the sink whose thread holds it
    lcd_queue_lock,
    oled_queue_lock,
    monitor_pc,          \* where monitor_loop is
    new_aircrafts,       \* monitor_loop's locals
    existing_aircrafts,
    aircrafts_to_remove,
    outcome,             \* how the cycle ended: "ok", "nodata", "error"
    consumer_pc,         \* sink -> where its display loop is
    aircraft,            \* sink -> the aircraft its loop popped
    read_result,         \* history: what the cycle read, kept for one step
    snapshot_hexes,      \* history: the hex codes in the data read
    history_before,      \* history: the roster when the data was read
    main_pc,             \* the main thread: "menu", or "wait" in start_monitoring
    threads,             \* role -> the loops started and not ended
    lister,              \* list_known_aircraft: where it is, what it has read
    snapshot_valid,      \* history: the hex codes read with a flight
    expired,             \* history: the hex codes deleted from the roster
    unidentified,        \* history: untracked hex codes read without a flight
    displayed,           \* display -> what it shows
    display_init,        \* display -> how its controller was initialised
    process,             \* the process of main: signals, shutdown
    display_service,     \* a BaseDisplayService and the caller of its methods
    config,              \* the values of the configuration file
    alert_system,        \* an AirplaneAlertSystem (or PiPlaneMonitor)
    sound_alert_service, \* a PiPlaneSoundAlertService, its caller, a playback
    api                  \* a client of a lookup service, and its clock

vars ==
    <<now, aircraft_history, running, exit_requested, lcd_controller,
      oled_controller, console_queue, lcd_queue, oled_queue,
      console_queue_lock, lcd_queue_lock, oled_queue_lock, monitor_pc,
      new_aircrafts, existing_aircrafts, aircrafts_to_remove, outcome,
      consumer_pc, aircraft, read_result, snapshot_hexes, history_before,
      main_pc, threads, lister, snapshot_valid, expired, unidentified, displayed,
      display_init, process, display_service, config, alert_system,
      sound_alert_service, api>>

queue_vars == <<console_queue, lcd_queue, oled_queue>>
lock_vars == <<console_queue_lock, lcd_queue_lock, oled_queue_lock>>
flag_vars == <<running, exit_requested, lcd_controller, oled_controller>>
local_vars == <<new_aircrafts, existing_aircrafts, aircrafts_to_remove>>
record_vars == <<read_result, snapshot_hexes, history_before, snapshot_valid>>
consumer_vars == <<consumer_pc, aircraft>>
main_vars == <<main_pc, threads, lister>>
\* The configuration, and the classes that main does not use.
component_vars == <<config, alert_system, sound_alert_service, api>>
\* What is not a field of PiPlaneMonitorService.
outside_vars == <<display_init, process, display_service, component_vars>>
\* main and its PiPlaneMonitorService.
main_program_vars ==
    <<now, aircraft_history, flag_vars, queue_vars, lock_vars, monitor_pc,
      local_vars, outcome, consumer_vars, record_vars, main_vars, expired,
      unidentified, displayed, display_init, process>>
\* What is not a field of a BaseDisplayService.
monitor_service_vars == <<main_program_vars, component_vars>>

\* ------------------------------------------------------------ pure helpers
RECURSIVE LStrip(_)
LStrip(s) == IF s # <<>> /\ Head(s) = " " THEN LStrip(Tail(s)) ELSE s

RECURSIVE RStrip(_)
RStrip(s) ==
    IF s # <<>> /\ s[Len(s)] = " " THEN RStrip(SubSeq(s, 1, Len(s) - 1)) ELSE s

\* str.strip()
Strip(s) == RStrip(LStrip(s))

\* aircraft.get("flight", "")
GetFlight(a) == IF a.flight = MissingKey THEN <<>> ELSE a.flight

\* .strip() on None raises AttributeError
StripRaises(a) == GetFlight(a) = NoneValue

\* A validity test that forgets the strip().
IsValidWithoutStrip(a) == GetFlight(a) # <<>>

_is_valid_aircraft(a) == Strip(GetFlight(a)) # <<>>

_read_aircraft_data(file) ==
    IF file.kind \in {"missing", "invalid_json", "permission_denied"}
    THEN None
    ELSE file

\* A loop that forgets the `if aircraft_data:` test.
DataNotTested(data) == TRUE

\* `if aircraft_data:` : None and the empty dict are falsy
DataTruthy(data) == data.kind = "dict" /\ data.keys # {}

Range(s) == {s[i] : i \in DOMAIN s}
HexCodes(s) == {a.hex : a \in {x \in Range(s) : Truthy(x.hex)}}
\* The hex codes of the entries of s whose flight is a string that is not
\* empty and not only whitespace.
HexCodesWithFlight(s) ==
    {a.hex : a \in {x \in Range(s) :
        /\ Truthy(x.hex)
        /\ x.flight \notin {MissingKey, NoneValue}
        /\ \E i \in DOMAIN x.flight : x.flight[i] # " "}}
Count(s, hex_code) == Cardinality({i \in DOMAIN s : s[i].hex = hex_code})

\* The hex codes that the loop of _get_new_and_existing_aircrafts skips for
\* their flight, and that are in neither of its lists nor in the roster.
Unidentified(data, history) ==
    (HexCodes(data.aircraft) \ HexCodesWithFlight(data.aircraft)) \ DOMAIN history

\* The loop of _get_new_and_existing_aircrafts raises when it reaches an entry
\* with a hex whose flight is None.
ClassifyRaises(data) ==
    /\ "aircraft" \in data.keys
    /\ \E i \in DOMAIN data.aircraft :
          Truthy(data.aircraft[i].hex) /\ StripRaises(data.aircraft[i])

\* The entries the loop does not skip.
Classified(data) ==
    IF "aircraft" \notin data.keys
    THEN <<>>
    ELSE SelectSeq(data.aircraft,
                   LAMBDA a : Truthy(a.hex) /\ _is_valid_aircraft(a))

\* A classification for which a hex read before without a flight is no
\* longer new, as if the roster had recorded it then.
SeenBeforeIsNotNew(data, history) ==
    <<SelectSeq(Classified(data),
                LAMBDA a : a.hex \notin DOMAIN history \cup unidentified),
      SelectSeq(Classified(data), LAMBDA a : a.hex \in DOMAIN history)>>

\* _get_new_and_existing_aircrafts: <<new_aircrafts, existing_aircrafts>>
_get_new_and_existing_aircrafts(data, history) ==
    <<SelectSeq(Classified(data), LAMBDA a : a.hex \notin DOMAIN history),
      SelectSeq(Classified(data), LAMBDA a : a.hex \in DOMAIN history)>>

_create_aircraft_info(history, a, t) ==
    IF ~Truthy(a.hex)
    THEN history
    ELSE [h \in DOMAIN history \cup {a.hex} |->
            IF h = a.hex
            THEN [first_seen |-> t, last_seen |-> t,
                  flight |-> Strip(GetFlight(a))]
            ELSE history[h]]

\* _create_aircraft_info, t1, t2 and t3 being what its three datetime.now()
\* return; of a position the record keeps the timestamp.
CreateTimed(history, a, t1, t2, t3) ==
    IF ~Truthy(a.hex)
    THEN history
    ELSE [h \in DOMAIN history \cup {a.hex} |->
            IF h = a.hex
            THEN [first_seen |-> t1, last_seen |-> t2,
                  flight |-> Strip(GetFlight(a)),
                  positions |-> IF a.position THEN <<t3>> ELSE <<>>]
            ELSE history[h]]

\* An update that writes the time to first_seen.
UpdateTimedFirstSeen(history, a, t1, t2) ==
    IF Truthy(a.hex) /\ a.hex \in DOMAIN history
    THEN [history EXCEPT ![a.hex].first_seen = t1]
    ELSE history

\* _update_aircraft_info, t1 and t2 being what its two datetime.now() return.
UpdateTimed(history, a, t1, t2) ==
    IF Truthy(a.hex) /\ a.hex \in DOMAIN history
    THEN [history EXCEPT
            ![a.hex].last_seen = t1,
            ![a.hex].positions = IF a.position THEN Append(@, t2) ELSE @]
    ELSE history

\* An update that writes the whole record again, as for a new aircraft.
UpdateCreatesAgain(history, a, t) ==
    IF Truthy(a.hex) /\ a.hex \in DOMAIN history
    THEN _create_aircraft_info(history, a, t)
    ELSE history

_update_aircraft_info(history, a, t) ==
    IF Truthy(a.hex) /\ a.hex \in DOMAIN history
    THEN [history EXCEPT ![a.hex].last_seen = t]
    ELSE history

RECURSIVE CreateAll(_, _, _)
CreateAll(history, s, t) ==
    IF s = <<>>
    THEN history
    ELSE CreateAll(_create_aircraft_info(history, Head(s), t), Tail(s), t)

RECURSIVE UpdateAll(_, _, _)
UpdateAll(history, s, t) ==
    IF s = <<>>
    THEN history
    ELSE UpdateAll(_update_aircraft_info(history, Head(s), t), Tail(s), t)

\* A threshold test written with >= .
IsOldInclusive(age) == age >= ExpirySeconds

\* `(current_time - last_seen).total_seconds() > 300`
IsOld(age) == age > ExpirySeconds

\* The hex codes _cleanup_old_aircrafts collects in aircrafts_to_remove.
OldAircrafts(history, current_aircrafts, t) ==
    {h \in DOMAIN history :
        h \notin HexCodes(current_aircrafts) /\ IsOld(t - history[h].last_seen)}

\* `del self.aircraft_history[hex_code]` for each of them.
Without(history, removed) == [h \in DOMAIN history \ removed |-> history[h]]

\* What _update_aircraft_history passes to _cleanup_old_aircrafts.
CleanupArgument(new, existing) == existing

\* _update_aircraft_history: its two loops, then _cleanup_old_aircrafts up to
\* its call of _cleanup_queues_for_removed_aircraft.
\* <<aircraft_history, aircrafts_to_remove>>
_update_aircraft_history(history, new, existing, t) ==
    LET applied == UpdateAll(CreateAll(history, new, t), existing, t)
        removed == OldAircrafts(applied, CleanupArgument(new, existing), t)
    IN  <<Without(applied, removed), removed>>

\* s, back to front.
Reverse(s) == [i \in 1..Len(s) |-> s[Len(s) + 1 - i]]

\* A purge that rebuilds the queue back to front.
CleanedReversed(queue, removed_hex_codes) ==
    Reverse(SelectSeq(queue, LAMBDA a : a.hex \notin removed_hex_codes))

\* A queue that is left as it is.
NotCleaned(queue, removed_hex_codes) == queue

\* One queue of _cleanup_queues_for_removed_aircraft.
Cleaned(queue, removed_hex_codes) ==
    SelectSeq(queue, LAMBDA a : a.hex \notin removed_hex_codes)

\* ------------------------------------------------------------ state access
Queue(q) ==
    CASE q = "console" -> console_queue
      [] q = "lcd" -> lcd_queue
      [] q = "oled" -> oled_queue

Lock(q) ==
    CASE q = "console" -> console_queue_lock
      [] q = "lcd" -> lcd_queue_lock
      [] q = "oled" -> oled_queue_lock

\* Three names for one list: a change of one queue is a change of all.
SetQueueAliased(q, v) ==
    /\ console_queue' = v
    /\ lcd_queue' = v
    /\ oled_queue' = v

SetQueue(q, v) ==
    /\ console_queue' = IF q = "console" THEN v ELSE console_queue
    /\ lcd_queue' = IF q = "lcd" THEN v ELSE lcd_queue
    /\ oled_queue' = IF q = "oled" THEN v ELSE oled_queue

SetLock(q, v) ==
    /\ console_queue_lock' = IF q = "console" THEN v ELSE console_queue_lock
    /\ lcd_queue_lock' = IF q = "lcd" THEN v ELSE lcd_queue_lock
    /\ oled_queue_lock' = IF q = "oled" THEN v ELSE oled_queue_lock

ClockBound ==
    IF lcd_controller \/ oled_controller THEN MaxTimeDisplays ELSE MaxTime

AllLocksFree == \A q \in Sinks : Lock(q) = "free"

\* The third field of a queue_configs entry.
Enabled(q) ==
    \/ q = "console"
    \/ q = "lcd" /\ lcd_controller
    \/ q = "oled" /\ oled_controller

NoRecord ==
    /\ read_result' = ""
    /\ snapshot_hexes' = {}
    /\ history_before' = EmptyHistory
    /\ snapshot_valid' = {}

\* -------------------------------------------------------------------- Init
\* The fields of a PiPlaneMonitorService after __init__, but for the two
\* controllers it is given, and the process of main.
Constructed ==
    /\ now = 0
    /\ aircraft_history = EmptyHistory
    /\ running = FALSE
    /\ exit_requested = FALSE
    /\ console_queue = <<>>
    /\ lcd_queue = <<>>
    /\ oled_queue = <<>>
    /\ console_queue_lock = "free"
    /\ lcd_queue_lock = "free"
    /\ oled_queue_lock = "free"
    /\ monitor_pc = "init"
    /\ new_aircrafts = <<>>
    /\ existing_aircrafts = <<>>
    /\ aircrafts_to_remove = {}
    /\ outcome = ""
    /\ consumer_pc = [q \in Sinks |-> "none"]
    /\ aircraft = [q \in Sinks |-> NoAircraft]
    /\ read_result = ""
    /\ snapshot_hexes = {}
    /\ history_before = EmptyHistory
    /\ main_pc = "menu"
    /\ threads = [r \in Roles |-> 0]
    /\ lister = NotListing
    /\ snapshot_valid = {}
    /\ expired = {}
    /\ unidentified = {}
    /\ process = StartedProcess

\* No configuration file, or one without the keys below; and the other
\* classes after their constructors.
Components ==
    /\ display_service = NewDisplayService
    /\ config = DefaultConfig
    /\ alert_system = NewAlertSystem
    /\ sound_alert_service = NewSoundAlertService
    /\ api = NewClient("HexDBAPI")

Init ==
    /\ lcd_controller \in BOOLEAN
    /\ oled_controller \in BOOLEAN
    /\ displayed = [d \in Displays |-> IF Enabled(d) THEN "startup" ELSE "off"]
    /\ display_init = [d \in Displays |-> IF Enabled(d) THEN "ok" ELSE "disabled"]
    /\ Constructed
    /\ Components

\* The values alerts_aircraft_timeout is given in the configuration file:
\* the default, and ten minutes.
ConfiguredTimeouts == {300, 600}

\* main after its constructors, whatever the configured aircraft timeout.
InitConfigured ==
    /\ lcd_controller \in BOOLEAN
    /\ oled_controller \in BOOLEAN
    /\ displayed = [d \in Displays |-> IF Enabled(d) THEN "startup" ELSE "off"]
    /\ display_init = [d \in Displays |-> IF Enabled(d) THEN "ok" ELSE "disabled"]
    /\ Constructed
    /\ display_service = NewDisplayService
    /\ config \in [alerts_aircraft_timeout : ConfiguredTimeouts]
    /\ alert_system = NewAlertSystem
    /\ sound_alert_service = NewSoundAlertService
    /\ api = NewClient("HexDBAPI")

\* How initialize_displays of main ends for a display: "disabled" by the
\* configuration, the constructor not called; "ok"; "raised", the constructor
\* having raised what the hardware raised; "unavailable", the library of the
\* display missing, when the constructor returns a controller without having
\* tried the hardware (an LCD controller whose lcd is None, an OLED controller
\* with no display attribute).
InitOutcomes == {"disabled", "ok", "raised", "unavailable"}

\* What initialize_displays returns for an outcome: TRUE for a controller,
\* FALSE for None.
Controller(init_outcome) == init_outcome \in {"ok", "unavailable"}

\* main up to its menu, whatever the outcomes of initialize_displays.
InitStartup ==
    /\ display_init \in [Displays -> InitOutcomes]
    /\ lcd_controller = Controller(display_init["lcd"])
    /\ oled_controller = Controller(display_init["oled"])
    /\ displayed =
          [d \in Displays |-> IF display_init[d] = "ok" THEN "startup" ELSE "off"]
    /\ Constructed
    /\ Components

\* The configurations with the console and at most one of the two displays:
\* those under which the menu of main is modelled.
InitMenu == Init /\ ~(lcd_controller /\ oled_controller)

\* ---------------------------------------------------------- monitor thread
\* Of the loops of one role, monitor_pc and consumer_pc follow the one that
\* was started first and has not ended; a loop started while it is alive
\* waits to be scheduled until it has ended.
\* start_monitoring, called from the menu of main: the flags, then the monitor
\* thread is started; the main thread goes on to wait for the exit signal.
StartMonitoring ==
    /\ main_pc = "menu"
    /\ lister.pc = "idle"
    /\ \A r \in Roles : threads[r] < MaxThreads
    /\ running' = TRUE
    /\ exit_requested' = FALSE
    /\ main_pc' = "wait"
    /\ threads' = [threads EXCEPT !["monitor"] = @ + 1]
    /\ monitor_pc' = IF threads["monitor"] = 0 THEN "start" ELSE monitor_pc
    /\ UNCHANGED <<outside_vars, displayed, expired, unidentified>>
    /\ UNCHANGED <<lister, now, aircraft_history, lcd_controller, oled_controller,
                   queue_vars, lock_vars, local_vars, outcome, consumer_vars,
                   record_vars>>

\* What the displays show after the displays of `written` have been given
\* `what` to show.  Where the content of the displays is not followed, it is
\* left as it is.
Shown(followed, written, what) ==
    IF followed
    THEN [d \in Displays |-> IF d \in written THEN what ELSE displayed[d]]
    ELSE displayed

\* monitor_loop up to its while loop: the idle messages, then
\* _start_display_threads starts a loop for the console and for each
\* controller that is not None.  An OLED controller that was constructed
\* without its libraries has no display attribute, and its idle message
\* raises.
MonitorStartShowing(followed) ==
    /\ monitor_pc = "start"
    /\ display_init["oled"] # "unavailable"
    /\ displayed' = Shown(followed, {d \in Displays : Enabled(d)}, "idle")
    /\ consumer_pc' =
          [q \in Sinks |->
              IF Enabled(q) /\ threads[q] = 0 THEN "loop" ELSE consumer_pc[q]]
    /\ threads' =
          [r \in Roles |->
              IF r \in Sinks /\ Enabled(r) THEN threads[r] + 1 ELSE threads[r]]
    /\ monitor_pc' = "loop"
    /\ UNCHANGED <<outside_vars, expired, unidentified>>
    /\ UNCHANGED <<main_pc, lister, now, aircraft_history, flag_vars,
                   queue_vars, lock_vars, local_vars, outcome, aircraft,
                   record_vars>>

\* The idle message of the OLED raises (display.show() is not in a try block,
\* and neither is the call in monitor_loop): the monitor thread ends before
\* its while loop.  The LCD catches the exceptions of its display_text.
MonitorIdleRaisesShowing(followed) ==
    /\ monitor_pc = "start"
    /\ oled_controller
    /\ displayed' = Shown(followed, {d \in {"lcd"} : Enabled(d)}, "idle")
    /\ monitor_pc' = IF threads["monitor"] > 1 THEN "start" ELSE "crashed"
    /\ threads' = [threads EXCEPT !["monitor"] = @ - 1]
    /\ UNCHANGED <<outside_vars, expired, unidentified>>
    /\ UNCHANGED <<main_pc, lister, now, aircraft_history, flag_vars,
                   queue_vars, lock_vars, local_vars, outcome, consumer_vars,
                   record_vars>>

MonitorStart == MonitorStartShowing(FALSE)

MonitorIdleRaises == MonitorIdleRaisesShowing(FALSE)

\* `while self.running and not self.exit_requested` is false.
MonitorExit ==
    /\ monitor_pc = "loop"
    /\ ~(running /\ ~exit_requested)
    /\ monitor_pc' = IF threads["monitor"] > 1 THEN "start" ELSE "done"
    /\ threads' = [threads EXCEPT !["monitor"] = @ - 1]
    /\ UNCHANGED <<outside_vars, displayed, expired, unidentified>>
    /\ UNCHANGED <<main_pc, lister, now, aircraft_history, flag_vars,
                   queue_vars, lock_vars, local_vars, outcome, consumer_vars,
                   record_vars>>

\* What the read returned, for the record.
ReadResult(data) ==
    IF data = None THEN "None" ELSE IF data.keys = {} THEN "empty" ELSE "dict"

\* A cleanup that forgets to call _cleanup_queues_for_removed_aircraft.
AfterDeleteNoPurge(removed, new) == IF new # <<>> THEN "fanout" ELSE "sleep"

\* Where the cycle goes after _cleanup_old_aircrafts has deleted the old
\* aircraft: _cleanup_queues_for_removed_aircraft is called when there are
\* any, and _update_new_aircrafts_queue returns at once when new_aircrafts is
\* empty.
AfterDelete(removed, new) ==
    IF removed # {} THEN "purge" ELSE IF new # <<>> THEN "fanout" ELSE "sleep"

\* One cycle of monitor_loop up to the deletion of the old aircraft: the read
\* and, when the data is truthy, the classification and the update of the
\* roster.  files: what the file can be when it is read.
Cycle(files) ==
    /\ monitor_pc = "loop"
    /\ running /\ ~exit_requested
    /\ \E file \in files :
       LET data == _read_aircraft_data(file)
           lists == _get_new_and_existing_aircrafts(data, aircraft_history)
           updated == _update_aircraft_history(aircraft_history, lists[1],
                                               lists[2], now)
       IN  /\ read_result' = ReadResult(data)
           /\ snapshot_hexes' = HexCodes(data.aircraft)
           /\ history_before' = aircraft_history
           /\ snapshot_valid' = HexCodesWithFlight(data.aircraft)
           /\ IF ~DataTruthy(data)
              THEN /\ monitor_pc' = "nodata"
                   /\ UNCHANGED <<aircraft_history, local_vars, outcome, expired,
                                  unidentified>>
              ELSE IF ClassifyRaises(data)
              THEN /\ monitor_pc' = "sleep"
                   /\ outcome' = "error"
                   /\ UNCHANGED <<aircraft_history, local_vars, expired, unidentified>>
              ELSE /\ new_aircrafts' = lists[1]
                   /\ existing_aircrafts' = lists[2]
                   /\ aircraft_history' = updated[1]
                   /\ aircrafts_to_remove' = updated[2]
                   /\ expired' = expired \cup updated[2]
                   /\ unidentified' =
                         unidentified \cup Unidentified(data, aircraft_history)
                   /\ monitor_pc' = AfterDelete(updated[2], lists[1])
                   /\ outcome' =
                         IF AfterDelete(updated[2], lists[1]) = "sleep"
                         THEN "ok"
                         ELSE outcome
    /\ UNCHANGED <<outside_vars, displayed>>
    /\ UNCHANGED <<main_vars, now, flag_vars, queue_vars, lock_vars, consumer_vars>>

MonitorCycle == Cycle(FileStates)

\* The cycle, reading short snapshots.
MonitorCycleShort == Cycle(ShortFileStates)

\* The cycle, reading what the file is while the menu of main is used.
MonitorCycleMenu == Cycle(MenuFileStates)

\* The cycle, reading snapshots of well-formed entries.
MonitorCycleOrder == Cycle(OrderFileStates)

\* The cycle in the steps another reader of the roster can tell apart.  First
\* the read and the classification, which leave the roster as it is.
MonitorClassify ==
    /\ monitor_pc = "loop"
    /\ running /\ ~exit_requested
    /\ \E file \in MenuFileStates :
       LET data == _read_aircraft_data(file)
           lists == _get_new_and_existing_aircrafts(data, aircraft_history)
       IN  /\ read_result' = ReadResult(data)
           /\ snapshot_hexes' = HexCodes(data.aircraft)
           /\ history_before' = aircraft_history
           /\ snapshot_valid' = HexCodesWithFlight(data.aircraft)
           /\ IF ~DataTruthy(data)
              THEN /\ monitor_pc' = "nodata"
                   /\ UNCHANGED <<local_vars, outcome, unidentified>>
              ELSE IF ClassifyRaises(data)
              THEN /\ monitor_pc' = "sleep"
                   /\ outcome' = "error"
                   /\ UNCHANGED <<local_vars, unidentified>>
              ELSE /\ new_aircrafts' = lists[1]
                   /\ existing_aircrafts' = lists[2]
                   /\ monitor_pc' = "apply"
                   /\ unidentified' =
                         unidentified \cup Unidentified(data, aircraft_history)
                   /\ UNCHANGED <<aircrafts_to_remove, outcome>>
    /\ UNCHANGED <<outside_vars, displayed, expired>>
    /\ UNCHANGED <<main_vars, now, aircraft_history, flag_vars, queue_vars,
                   lock_vars, consumer_vars>>

\* The two loops of _update_aircraft_history, and the loop of
\* _cleanup_old_aircrafts that collects the old aircraft.
MonitorApply ==
    /\ monitor_pc = "apply"
    /\ LET applied == UpdateAll(CreateAll(aircraft_history, new_aircrafts, now),
                                existing_aircrafts, now)
           removed == OldAircrafts(applied,
                         CleanupArgument(new_aircrafts, existing_aircrafts), now)
           next == IF removed # {} THEN "delete" ELSE AfterDelete({}, new_aircrafts)
       IN  /\ aircraft_history' = applied
           /\ aircrafts_to_remove' = removed
           /\ monitor_pc' = next
           /\ outcome' = IF next = "sleep" THEN "ok" ELSE outcome
    /\ UNCHANGED <<outside_vars, displayed, expired, unidentified>>
    /\ UNCHANGED <<main_vars, now, flag_vars, queue_vars, lock_vars,
                   new_aircrafts, existing_aircrafts, consumer_vars, record_vars>>

\* One `del self.aircraft_history[hex_code]` of the second loop of
\* _cleanup_old_aircrafts.  The loop follows the insertion order of the
\* dictionary, which the roster of the model does not keep: any order.
MonitorDelete ==
    /\ monitor_pc = "delete"
    /\ \E hex_code \in aircrafts_to_remove \cap DOMAIN aircraft_history :
          /\ aircraft_history' = Without(aircraft_history, {hex_code})
          /\ expired' = expired \cup {hex_code}
          /\ monitor_pc' =
                IF aircrafts_to_remove \cap DOMAIN aircraft_history = {hex_code}
                THEN AfterDelete(aircrafts_to_remove, new_aircrafts)
                ELSE "delete"
    /\ UNCHANGED <<outside_vars, displayed, unidentified>>
    /\ UNCHANGED <<main_vars, now, flag_vars, queue_vars, lock_vars, local_vars,
                   outcome, consumer_vars, record_vars>>

\* The else branch: display_error("No data") on each controller, then sleep.
MonitorNoDataShowing(followed) ==
    /\ monitor_pc = "nodata"
    /\ displayed' = Shown(followed, {d \in Displays : Enabled(d)}, "error")
    /\ monitor_pc' = "sleep"
    /\ outcome' = "nodata"
    /\ UNCHANGED <<outside_vars, expired, unidentified>>
    /\ UNCHANGED <<main_vars, now, aircraft_history, flag_vars, queue_vars, lock_vars,
                   local_vars, consumer_vars, record_vars>>

MonitorNoData == MonitorNoDataShowing(FALSE)

\* _cleanup_queues_for_removed_aircraft: each queue, under its lock.
MonitorPurge ==
    /\ monitor_pc = "purge"
    /\ AllLocksFree
    /\ console_queue' = Cleaned(console_queue, aircrafts_to_remove)
    /\ lcd_queue' = Cleaned(lcd_queue, aircrafts_to_remove)
    /\ oled_queue' = Cleaned(oled_queue, aircrafts_to_remove)
    /\ monitor_pc' = AfterDelete({}, new_aircrafts)
    /\ outcome' = IF new_aircrafts = <<>> THEN "ok" ELSE outcome
    /\ existing_aircrafts' = <<>>
    /\ NoRecord
    /\ UNCHANGED <<outside_vars, displayed, expired, unidentified>>
    /\ UNCHANGED <<main_vars, now, aircraft_history, flag_vars, lock_vars, new_aircrafts,
                   aircrafts_to_remove, consumer_vars>>

\* Whether the second loop of _update_new_aircrafts_queue appends aircraft a
\* to queue q, existing being the hex codes its first loop found in the queue.
ShouldAppend(a, q, existing) ==
    Truthy(a.hex) /\ Enabled(q) /\ a.hex \notin existing

\* Queue q after _update_new_aircrafts_queue: the hex codes are read once,
\* before anything is appended.
Filled(queue, q, new) ==
    queue \o SelectSeq(new, LAMBDA a : ShouldAppend(a, q, HexCodes(queue)))

\* _update_new_aircrafts_queue, each queue under its lock.
MonitorFanOut ==
    /\ monitor_pc = "fanout"
    /\ AllLocksFree
    /\ console_queue' = Filled(console_queue, "console", new_aircrafts)
    /\ lcd_queue' = Filled(lcd_queue, "lcd", new_aircrafts)
    /\ oled_queue' = Filled(oled_queue, "oled", new_aircrafts)
    /\ monitor_pc' = "sleep"
    /\ outcome' = "ok"
    /\ existing_aircrafts' = <<>>
    /\ NoRecord
    /\ UNCHANGED <<outside_vars, displayed, expired, unidentified>>
    /\ UNCHANGED <<main_vars, now, aircraft_history, flag_vars, lock_vars, new_aircrafts,
                   aircrafts_to_remove, consumer_vars>>

\* time.sleep(interval), in the try block or in the except handler; the
\* locals of the cycle are dead after it.  At its bound the clock stands
\* still, for a loop that a stop request is about to end.
MonitorSleep ==
    /\ monitor_pc = "sleep"
    /\ \E gap \in Gaps :
          \/ /\ now + gap <= ClockBound
             /\ now' = now + gap
          \/ /\ now + gap > ClockBound
             /\ ~(running /\ ~exit_requested)
             /\ now' = now
    /\ monitor_pc' = "loop"
    /\ new_aircrafts' = <<>>
    /\ existing_aircrafts' = <<>>
    /\ aircrafts_to_remove' = {}
    /\ outcome' = ""
    /\ NoRecord
    /\ UNCHANGED <<outside_vars, displayed, expired, unidentified>>
    /\ UNCHANGED <<main_vars, aircraft_history, flag_vars, queue_vars, lock_vars,
                   consumer_vars>>

\* --------------------------------------------------------- consumer threads
\* The render of the loop of sink q: _print_to_console, or
\* display_new_aircraft_detected followed by display_aircraft_info.
Render(q) == IF q = "console" THEN "print" ELSE "display"

\* A display loop that tests running instead of exit_requested.
WhileRunning == running

\* `while not self.exit_requested` of a display loop.
ConsumerLoopCondition == ~exit_requested

\* The loop condition is false.
ConsumerExit(q) ==
    /\ consumer_pc[q] = "loop"
    /\ ~ConsumerLoopCondition
    /\ consumer_pc' =
          [consumer_pc EXCEPT ![q] = IF threads[q] > 1 THEN "loop" ELSE "done"]
    /\ threads' = [threads EXCEPT ![q] = @ - 1]
    /\ UNCHANGED <<outside_vars, displayed, expired, unidentified>>
    /\ UNCHANGED <<main_pc, lister, now, aircraft_history, flag_vars,
                   queue_vars, lock_vars, monitor_pc, local_vars, outcome,
                   aircraft, record_vars>>

\* An iteration of a display loop that finds its queue empty: `pass` under the
\* lock, and the loop goes to its time.sleep(0.1).  Nothing is written to the
\* display.
ConsumerFindsEmpty(q) ==
    /\ consumer_pc[q] = "loop"
    /\ ConsumerLoopCondition
    /\ Lock(q) = "free"
    /\ Queue(q) = <<>>
    /\ consumer_pc' = [consumer_pc EXCEPT ![q] = "sleep"]
    /\ UNCHANGED <<outside_vars, displayed, expired, unidentified>>
    /\ UNCHANGED <<main_vars, now, aircraft_history, flag_vars, queue_vars,
                   lock_vars, monitor_pc, local_vars, outcome, aircraft,
                   record_vars>>

\* time.sleep(0.1) returns.
ConsumerWakes(q) ==
    /\ consumer_pc[q] = "sleep"
    /\ consumer_pc' = [consumer_pc EXCEPT ![q] = "loop"]
    /\ UNCHANGED <<outside_vars, displayed, expired, unidentified>>
    /\ UNCHANGED <<main_vars, now, aircraft_history, flag_vars, queue_vars,
                   lock_vars, monitor_pc, local_vars, outcome, aircraft,
                   record_vars>>

\* A test of the popped aircraft that is inverted.
NotInHistory(a, history) == Truthy(a.hex) /\ a.hex \notin DOMAIN history

\* Whether the loop renders the aircraft it popped.
StillInHistory(a, history) == Truthy(a.hex) /\ a.hex \in DOMAIN history

\* One iteration that finds an aircraft: the lock is taken, the head popped,
\* and the render entered when the aircraft is still in history.
\* (An iteration that finds the queue empty changes nothing.)
ConsumerPopShowing(q, followed) ==
    /\ consumer_pc[q] = "loop"
    /\ ConsumerLoopCondition
    /\ Lock(q) = "free"
    /\ Queue(q) # <<>>
    /\ SetQueue(q, Tail(Queue(q)))
    /\ IF StillInHistory(Head(Queue(q)), aircraft_history)
       THEN /\ aircraft' = [aircraft EXCEPT ![q] = Head(Queue(q))]
            /\ consumer_pc' = [consumer_pc EXCEPT ![q] = Render(q)]
            /\ SetLock(q, q)
            /\ displayed' = Shown(followed, {q}, "detected")
       ELSE /\ UNCHANGED <<aircraft, consumer_pc, lock_vars, displayed>>
    /\ UNCHANGED <<outside_vars, expired, unidentified>>
    /\ UNCHANGED <<main_vars, now, aircraft_history, flag_vars, monitor_pc, local_vars,
                   outcome, record_vars>>

ConsumerPop(q) == ConsumerPopShowing(q, FALSE)

\* The render returns, or raises into the except handler of the loop: the
\* with block releases the lock.  display_aircraft_info is the last to write
\* to the display.
ConsumerRenderedShowing(q, followed) ==
    /\ consumer_pc[q] = Render(q)
    /\ displayed' = Shown(followed, {q}, "aircraft")
    /\ consumer_pc' = [consumer_pc EXCEPT ![q] = "loop"]
    /\ aircraft' = [aircraft EXCEPT ![q] = NoAircraft]
    /\ SetLock(q, "free")
    /\ UNCHANGED <<outside_vars, expired, unidentified>>
    /\ UNCHANGED <<main_vars, now, aircraft_history, flag_vars, queue_vars, monitor_pc,
                   local_vars, outcome, record_vars>>

ConsumerRendered(q) == ConsumerRenderedShowing(q, FALSE)

Consumer(q) ==
    \/ ConsumerPop(q)
    \/ ConsumerRendered(q)

\* --------------------------------------------------------------- stopping
\* The wait loop of start_monitoring ends (`while self.running and not
\* self.exit_requested`) and start_monitoring returns to the menu of main.
StartMonitoringReturns ==
    /\ main_pc = "wait"
    /\ ~(running /\ ~exit_requested)
    /\ main_pc' = "menu"
    /\ UNCHANGED <<outside_vars, displayed, expired, unidentified>>
    /\ UNCHANGED <<now, aircraft_history, flag_vars, queue_vars, lock_vars,
                   monitor_pc, local_vars, outcome, consumer_vars, record_vars,
                   threads, lister>>

request_exit ==
    /\ running
    /\ ~exit_requested
    /\ exit_requested' = TRUE
    /\ UNCHANGED <<outside_vars, displayed, expired, unidentified>>
    /\ UNCHANGED <<main_vars, now, aircraft_history, running, lcd_controller,
                   oled_controller, queue_vars, lock_vars, monitor_pc,
                   local_vars, outcome, consumer_vars, record_vars>>

stop_monitoring ==
    /\ running
    /\ running' = FALSE
    /\ exit_requested' = TRUE
    /\ UNCHANGED <<outside_vars, displayed, expired, unidentified>>
    /\ UNCHANGED <<main_vars, now, aircraft_history, lcd_controller, oled_controller,
                   queue_vars, lock_vars, monitor_pc, local_vars, outcome,
                   consumer_vars, record_vars>>

\* ----------------------------------------------------------------- signals
\* (src/main.py)  SIGINT has signal_handler for its handler: sys.exit(0) raises
\* SystemExit in the main thread, in the menu or in the wait loop of
\* start_monitoring, whose `except KeyboardInterrupt` does not catch it; the
\* finally block of main calls stop_monitoring, then cleanup on each
\* controller that is not None, and the process exits, its daemon threads
\* with it.
SigInt ==
    /\ process.alive
    /\ running' = FALSE
    /\ exit_requested' = TRUE
    /\ process' =
          [alive |-> FALSE, signal |-> "SIGINT", stop_monitoring |-> TRUE,
           cleanup |-> {d \in Displays : Enabled(d)}]
    /\ UNCHANGED <<display_init, display_service, component_vars, displayed, expired,
                   unidentified>>
    /\ UNCHANGED <<main_vars, now, aircraft_history, lcd_controller,
                   oled_controller, queue_vars, lock_vars, monitor_pc,
                   local_vars, outcome, consumer_vars, record_vars>>

\* main gives SIGTERM no handler: the default action of the signal ends the
\* process where it is, no finally block being run.
SigTerm ==
    /\ process.alive
    /\ process' = [process EXCEPT !.alive = FALSE, !.signal = "SIGTERM"]
    /\ UNCHANGED <<display_init, display_service, component_vars, displayed, expired,
                   unidentified>>
    /\ UNCHANGED <<main_vars, now, aircraft_history, flag_vars, queue_vars,
                   lock_vars, monitor_pc, local_vars, outcome, consumer_vars,
                   record_vars>>

\* ------------------------------------------------------ list_known_aircraft
\* Choice L of the menu of main: list_known_aircraft runs in the main thread
\* and takes no lock.  `if not self.aircraft_history` is false (when it is
\* true the method returns at once).
ListStart ==
    /\ main_pc = "menu"
    /\ lister.pc = "idle"
    /\ aircraft_history # EmptyHistory
    /\ lister' = [NotListing EXCEPT !.pc = "count"]
    /\ UNCHANGED <<outside_vars, displayed, expired, unidentified>>
    /\ UNCHANGED <<main_pc, threads, now, aircraft_history, flag_vars,
                   queue_vars, lock_vars, monitor_pc, local_vars, outcome,
                   consumer_vars, record_vars>>

\* `len(self.aircraft_history)`
ListCount ==
    /\ lister.pc = "count"
    /\ lister' = [lister EXCEPT !.pc = "items",
                                !.total = Cardinality(DOMAIN aircraft_history)]
    /\ UNCHANGED <<outside_vars, displayed, expired, unidentified>>
    /\ UNCHANGED <<main_pc, threads, now, aircraft_history, flag_vars,
                   queue_vars, lock_vars, monitor_pc, local_vars, outcome,
                   consumer_vars, record_vars>>

\* `sorted(self.aircraft_history.items(), ...)`: the items are copied to a
\* list in one step of the interpreter, and the list is put in order.
ListItems ==
    /\ lister.pc = "items"
    /\ lister' = [lister EXCEPT !.pc = "print", !.items = aircraft_history]
    /\ UNCHANGED <<outside_vars, displayed, expired, unidentified>>
    /\ UNCHANGED <<main_pc, threads, now, aircraft_history, flag_vars,
                   queue_vars, lock_vars, monitor_pc, local_vars, outcome,
                   consumer_vars, record_vars>>

\* The loop that prints the items, and the return to the menu.
ListPrint ==
    /\ lister.pc = "print"
    /\ lister' = NotListing
    /\ UNCHANGED <<outside_vars, displayed, expired, unidentified>>
    /\ UNCHANGED <<main_pc, threads, now, aircraft_history, flag_vars,
                   queue_vars, lock_vars, monitor_pc, local_vars, outcome,
                   consumer_vars, record_vars>>

list_known_aircraft ==
    \/ ListStart
    \/ ListCount
    \/ ListItems
    \/ ListPrint

\* ----------------------------------------------------- BaseDisplayService
\* (src/services/display_services.py)  Each with block of the class is left
\* in the step that enters it, but for the one of add_aircraft.
\* A push that appends whatever it is given.
AddedAlways(queue, a, existing) == Append(queue, a)

\* The queue after `if hex_code not in existing_hex_codes: append`.
Added(queue, a, existing) ==
    IF a.hex \notin existing THEN Append(queue, a) ELSE queue

\* start() with no thread, or with one that has ended.
ServiceStart ==
    /\ display_service.thread \in {"none", "ended"}
    /\ display_service' =
          [display_service EXCEPT !.exit_requested = FALSE, !.thread = "loop",
                                  !.last_call = "start"]
    /\ UNCHANGED monitor_service_vars

\* start() while the thread is alive: `return`, exit_requested left as it is.
ServiceStartAlive ==
    /\ display_service.thread \notin {"none", "ended"}
    /\ display_service' = [display_service EXCEPT !.last_call = "start"]
    /\ UNCHANGED monitor_service_vars

\* stop()
ServiceStop ==
    /\ display_service' =
          [display_service EXCEPT !.exit_requested = TRUE, !.last_call = "stop"]
    /\ UNCHANGED monitor_service_vars

\* The monitor service sets aircraft_history; of the roster the display loop
\* reads the keys.
ServiceSetHistory ==
    /\ \E keys \in SUBSET {"a", "b", "c"} :
          /\ keys # display_service.aircraft_history
          /\ display_service' = [display_service EXCEPT !.aircraft_history = keys]
    /\ UNCHANGED monitor_service_vars

\* add_aircraft up to the set of the hex codes in the queue, the lock taken.
\* (A call with a falsy hex returns at once.)
AddAircraftScan ==
    /\ display_service.queue_lock = "free"
    /\ Len(display_service.queue) < MaxServiceQueue
    /\ \E a \in OrderEntries :
          display_service' =
              [display_service EXCEPT
                  !.queue_lock = "add_aircraft",
                  !.adding = a,
                  !.existing_hex_codes = HexCodes(display_service.queue)]
    /\ UNCHANGED monitor_service_vars

\* The rest of add_aircraft: the append, and the lock released.
AddAircraftAppend ==
    /\ display_service.queue_lock = "add_aircraft"
    /\ display_service' =
          [display_service EXCEPT
              !.queue = Added(@, display_service.adding,
                              display_service.existing_hex_codes),
              !.queue_lock = "free",
              !.adding = NoAircraft,
              !.existing_hex_codes = {}]
    /\ UNCHANGED monitor_service_vars

add_aircraft ==
    \/ AddAircraftScan
    \/ AddAircraftAppend

remove_aircraft ==
    /\ display_service.queue_lock = "free"
    /\ \E removed_hex_codes \in SUBSET {"a", "b", "c"} \ {{}} :
          /\ HexCodes(display_service.queue) \cap removed_hex_codes # {}
          /\ display_service' =
                [display_service EXCEPT
                    !.queue = Cleaned(@, removed_hex_codes)]
    /\ UNCHANGED monitor_service_vars

\* An iteration of _display_loop that finds an aircraft: the pop, under the
\* lock.  (One that finds none changes nothing: _show_idle_message of the
\* base class does nothing.)
DisplayLoopPop ==
    /\ display_service.thread = "loop"
    /\ ~display_service.exit_requested
    /\ display_service.queue_lock = "free"
    /\ display_service.queue # <<>>
    /\ display_service' =
          [display_service EXCEPT
              !.aircraft = Head(display_service.queue),
              !.queue = Tail(@),
              !.thread = "process"]
    /\ UNCHANGED monitor_service_vars

\* Whether the iteration calls _process_aircraft of a subclass.
Processed(service) ==
    /\ service.class # "BaseDisplayService"
    /\ service.aircraft.hex \in service.aircraft_history

\* How _process_aircraft ends: it returns (TRUE), or a call on the OLED
\* controller raises (FALSE), its display.show() being in no try block; the
\* LCD controller catches what its display_text raises.
ProcessOutcomes(service) ==
    IF Processed(service) /\ service.class = "OLEDDisplayService"
    THEN BOOLEAN
    ELSE {TRUE}

\* The rest of the iteration, outside the lock: _process_aircraft when the
\* aircraft is still in history; _last_state = "aircraft" is its last
\* statement.  What it raises is caught by the loop.
DisplayLoopProcess ==
    /\ display_service.thread = "process"
    /\ \E returns \in ProcessOutcomes(display_service) :
          display_service' =
              [display_service EXCEPT
                  !.aircraft = NoAircraft,
                  !.thread = "loop",
                  !.last_state =
                      IF Processed(display_service) /\ returns
                      THEN "aircraft" ELSE @,
                  !.idle_calls = IF Processed(display_service) THEN 0 ELSE @,
                  !.idle_returned = IF Processed(display_service) THEN 0 ELSE @]
    /\ UNCHANGED monitor_service_vars

\* An idle message that is shown on every iteration that finds no aircraft.
ShowsIdleAlways(last_state) == TRUE

\* `self._last_state != "idle"` of _show_idle_message (the controller of the
\* service is not None).
ShowsIdle(last_state) == last_state # "idle"

\* An iteration of _display_loop of a subclass that finds no aircraft, and
\* finds the queue empty when it looks again: _show_idle_message calls
\* display_idle_message, and sets _last_state when the call has returned; on
\* the OLED the call may raise.  (When _show_idle_message calls nothing the
\* iteration changes nothing.)
DisplayLoopIdle ==
    /\ display_service.class # "BaseDisplayService"
    /\ display_service.thread = "loop"
    /\ ~display_service.exit_requested
    /\ display_service.queue_lock = "free"
    /\ display_service.queue = <<>>
    /\ ShowsIdle(display_service.last_state)
    /\ display_service.idle_calls < MaxIdleCalls
    /\ \E returns \in
            IF display_service.class = "OLEDDisplayService" THEN BOOLEAN ELSE {TRUE} :
          display_service' =
              [display_service EXCEPT
                  !.idle_calls = @ + 1,
                  !.idle_returned = IF returns THEN @ + 1 ELSE @,
                  !.last_state = IF returns THEN "idle" ELSE @]
    /\ UNCHANGED monitor_service_vars

\* `while not self.exit_requested` is false.
DisplayLoopExit ==
    /\ display_service.thread = "loop"
    /\ display_service.exit_requested
    /\ display_service' = [display_service EXCEPT !.thread = "ended"]
    /\ UNCHANGED monitor_service_vars

_display_loop ==
    \/ DisplayLoopPop
    \/ DisplayLoopProcess
    \/ DisplayLoopExit

\* ---------------------------------------------------- AirplaneAlertSystem
\* (src/alert_system.py; check_for_new_aircraft and _trigger_alerts of
\* PiPlaneMonitor, src/monitor.py, are the same but for the name of the set.)
\* The loop of check_for_new_aircraft over the entries of the snapshot:
\* .strip() raises on the flight of an entry, not known, whose flight is None.
RECURSIVE Checked(_, _, _)
Checked(known, new, entries) ==
    IF entries = <<>>
    THEN [known_aircraft |-> known, new_aircraft |-> new, raised |-> FALSE]
    ELSE LET a == Head(entries)
         IN  IF ~Truthy(a.hex) \/ a.hex \in known
             THEN Checked(known, new, Tail(entries))
             ELSE IF StripRaises(a)
             THEN [known_aircraft |-> known, new_aircraft |-> new,
                   raised |-> TRUE]
             ELSE Checked(known \cup {a.hex},
                          IF Strip(GetFlight(a)) # <<>>
                          THEN Append(new, a) ELSE new,
                          Tail(entries))

\* `if new_aircraft: self._trigger_alerts(new_aircraft)`: each callback is
\* called with the list, and what it raises is caught.
Triggered(new) ==
    [c \in Callbacks |-> IF new # <<>> THEN <<new>> ELSE <<>>]

\* One call of check_for_new_aircraft.  Between two calls any time may pass:
\* old is any set of known aircraft, absent from the snapshot, that the call
\* finds older than 300 s.
check_for_new_aircraft ==
    \E snapshot \in Snapshots, raising \in SUBSET Callbacks,
       old \in SUBSET alert_system.known_aircraft :
        LET checked == Checked(alert_system.known_aircraft, <<>>, snapshot)
        IN  /\ old \cap HexCodes(snapshot) = {}
            /\ alert_system' =
                  IF checked.raised
                  THEN [checked EXCEPT !.raised = TRUE] @@
                       [invoked |-> [c \in Callbacks |-> <<>>],
                        caught |-> {}, alerted |-> alert_system.alerted]
                  ELSE [known_aircraft |-> checked.known_aircraft \ old,
                        new_aircraft |-> checked.new_aircraft,
                        raised |-> FALSE,
                        invoked |-> Triggered(checked.new_aircraft),
                        caught |-> IF checked.new_aircraft # <<>>
                                   THEN raising ELSE {},
                        alerted |-> alert_system.alerted
                                      \cup HexCodes(checked.new_aircraft)]
            /\ UNCHANGED <<main_program_vars, display_service, config,
                           sound_alert_service, api>>

\* ---------------------------------------------------- PiPlaneSoundAlertService
\* (src/services/sound_alert_service.py)
MaxSoundTime == 3
MaxPlaybacks == 2

\* time.time() advances.
SoundClock ==
    /\ sound_alert_service.time < MaxSoundTime
    /\ sound_alert_service' =
          [sound_alert_service EXCEPT !.time = @ + 1]
    /\ UNCHANGED <<main_program_vars, display_service, config, alert_system,
                   api>>

_can_play_alert(service) ==
    ~(service.time - service.last_alert_time < AlertCooldown)

\* play_aircraft_alert up to the thread.start() of _play_alert: nothing
\* within the cooldown, nothing but the time of the alert when the audio file
\* does not exist, else audio_thread is started.
PlayAircraftAlert ==
    \E exists \in BOOLEAN :
        /\ sound_alert_service.caller = "idle"
        /\ Len(sound_alert_service.playbacks) < MaxPlaybacks
        /\ sound_alert_service' =
              IF ~_can_play_alert(sound_alert_service)
              THEN [sound_alert_service EXCEPT !.result = "cooldown"]
              ELSE IF ~exists
              THEN [sound_alert_service EXCEPT
                       !.last_alert_time = sound_alert_service.time,
                       !.result = "not_found"]
              ELSE [sound_alert_service EXCEPT
                       !.last_alert_time = sound_alert_service.time,
                       !.caller = "started",
                       !.playbacks = Append(@, "running")]
        /\ UNCHANGED <<main_program_vars, display_service, config,
                       alert_system, api>>

\* A _play_alert that joins the thread it has started.
AwaitsPlayback(playbacks) == playbacks[Len(playbacks)] # "running"

\* After thread.start() nothing stands between _play_alert and its return.
Returns(playbacks) == TRUE

PlayAlertReturns ==
    /\ sound_alert_service.caller = "started"
    /\ Returns(sound_alert_service.playbacks)
    /\ sound_alert_service' =
          [sound_alert_service EXCEPT !.caller = "idle", !.result = "started"]
    /\ UNCHANGED <<main_program_vars, display_service, config, alert_system,
                   api>>

\* How audio_thread can end: _play_buzzer and _play_mp3 return, or raise (a
\* CalledProcessError or TimeoutExpired of subprocess.run, an error of the
\* buzzer), which audio_thread catches and prints; an unknown type is printed.
PlaybackOutcomes(alert_type) ==
    IF alert_type = "unknown" THEN {"done"} ELSE {"done", "failed"}

\* audio_thread ends.  A playback that hangs is one that does not take this
\* step.
audio_thread ==
    \E i \in 1..MaxPlaybacks,
       ended \in PlaybackOutcomes(sound_alert_service.alert_type) :
        /\ i <= Len(sound_alert_service.playbacks)
        /\ sound_alert_service.playbacks[i] = "running"
        /\ sound_alert_service' =
              [sound_alert_service EXCEPT !.playbacks[i] = ended]
        /\ UNCHANGED <<main_program_vars, display_service, config,
                       alert_system, api>>

\* ---------------------------------------------------- the API clients
\* (src/apis/hexdb_api.py, src/apis/opensky_api.py, src/flight_enhancer.py)
MaxApiTime == 6
MaxOversleep == 1
LookupKeys == {"a", "b", "c"}

\* time.time() advances between two lookups.
ApiClock ==
    /\ api.time < MaxApiTime
    /\ api' = [api EXCEPT !.time = @ + 1]
    /\ UNCHANGED <<main_program_vars, display_service, config, alert_system,
                   sound_alert_service>>

\* The time.sleep of the rate limiting of a lookup that reads current_time;
\* a sleep may last longer than asked.
SleepTimes(client, current_time) ==
    IF current_time - client.last_request_time < RateLimit
    THEN {RateLimit - (current_time - client.last_request_time) + late :
             late \in 0..MaxOversleep}
    ELSE {0}

\* What the lookup stores as the time of the request: _respect_rate_limit
\* reads time.time() after its sleep, FlightDataEnhancer stores the
\* current_time it has read before its sleep.
StoredTime(class, current_time, after_sleep) ==
    IF class = "FlightDataEnhancer" THEN current_time ELSE after_sleep

\* HexDBAPI.get_aircraft_info, OpenSkyAPI.get_aircraft_state,
\* FlightDataEnhancer.get_flight_info_from_callsign and
\* get_aircraft_info_from_icao, one call after the other has returned: a key
\* of the cache is answered from it; else the rate limiting, the request, and
\* the answer is cached (by HexDBAPI and OpenSkyAPI, when there is one).
Lookup ==
    \E key \in LookupKeys, answered \in BOOLEAN :
        IF key \in api.cache
        THEN /\ api' = [api EXCEPT !.result = "cached"]
             /\ UNCHANGED <<main_program_vars, display_service, config,
                            alert_system, sound_alert_service>>
        ELSE \E sleep_time \in SleepTimes(api, api.time) :
                LET after_sleep == api.time + sleep_time
                IN  /\ after_sleep <= MaxApiTime
                    /\ api' =
                          [api EXCEPT
                             !.time = after_sleep,
                             !.last_request_time =
                                 StoredTime(api.class, api.time, after_sleep),
                             !.issued =
                                 IF @ = <<>> THEN <<after_sleep>>
                                 ELSE <<@[Len(@)], after_sleep>>,
                             !.cache =
                                 IF answered \/ api.class = "FlightDataEnhancer"
                                 THEN @ \cup {key} ELSE @,
                             !.result =
                                 IF answered \/ api.class = "FlightDataEnhancer"
                                 THEN "data" ELSE "none"]
                    /\ UNCHANGED <<main_program_vars, display_service,
                                   config, alert_system, sound_alert_service>>

\* ---------------------------------------------------- the clock, read often
\* One call of _create_aircraft_info, the clock advancing between its
\* readings.  It is called for the entries of the new list: for a hex that is
\* not tracked, or that an earlier entry of the same snapshot has just added.
CallCreate ==
    /\ \E a \in TimedEntries : \E d1, d2 \in 0..MaxClockStep :
          /\ now + d1 + d2 <= MaxClock
          /\ aircraft_history' =
                CreateTimed(aircraft_history, a, now, now + d1, now + d1 + d2)
          /\ now' = now + d1 + d2
    /\ UNCHANGED <<outside_vars, displayed, expired, unidentified>>
    /\ UNCHANGED <<main_vars, flag_vars, queue_vars, lock_vars, monitor_pc,
                   local_vars, outcome, consumer_vars, record_vars>>

\* One call of _update_aircraft_info, for an entry of the existing list.
CallUpdate ==
    /\ \E a \in TimedEntries : \E d \in 0..MaxClockStep :
          /\ a.hex \in DOMAIN aircraft_history
          /\ now + d <= MaxClock
          /\ a.position => Len(aircraft_history[a.hex].positions) < MaxPositions
          /\ aircraft_history' =
                UpdateTimed(aircraft_history, a, now, now + d)
          /\ now' = now + d
    /\ UNCHANGED <<outside_vars, displayed, expired, unidentified>>
    /\ UNCHANGED <<main_vars, flag_vars, queue_vars, lock_vars, monitor_pc,
                   local_vars, outcome, consumer_vars, record_vars>>

\* Time passes between two calls.
ClockAdvances ==
    /\ now < MaxClock
    /\ now' = now + 1
    /\ UNCHANGED <<outside_vars, displayed, expired, unidentified>>
    /\ UNCHANGED <<main_vars, aircraft_history, flag_vars, queue_vars,
                   lock_vars, monitor_pc, local_vars, outcome, consumer_vars,
                   record_vars>>

\* ------------------------------------------------------------ specification
Monitor ==
    \/ MonitorStart
    \/ MonitorIdleRaises
    \/ MonitorCycle
    \/ MonitorNoData
    \/ MonitorPurge
    \/ MonitorFanOut
    \/ MonitorSleep

\* Monitoring with no stop requested.
Next ==
    \/ StartMonitoring
    \/ Monitor
    \/ \E q \in Sinks : Consumer(q)

Spec == Init /\ [][Next]_vars

\* Monitoring with no stop requested, of three aircraft with well-formed
\* entries.
NextOrder ==
    \/ StartMonitoring
    \/ MonitorStart
    \/ MonitorIdleRaises
    \/ MonitorCycleOrder
    \/ MonitorNoData
    \/ MonitorPurge
    \/ MonitorFanOut
    \/ MonitorSleep
    \/ \E q \in Sinks : Consumer(q)

SpecOrder == Init /\ [][NextOrder]_vars

\* The steps of the monitor thread, reading short snapshots.
MonitorShort ==
    \/ MonitorStart
    \/ MonitorIdleRaises
    \/ MonitorCycleShort
    \/ MonitorNoData
    \/ MonitorPurge
    \/ MonitorFanOut
    \/ MonitorSleep
    \/ MonitorExit

\* One start_monitoring that may be stopped at any moment, with no
\* start_monitoring after it.
NextStop ==
    \/ monitor_pc = "init" /\ StartMonitoring
    \/ StartMonitoringReturns
    \/ MonitorShort
    \/ \E q \in Sinks : Consumer(q) \/ ConsumerExit(q)
    \/ request_exit
    \/ stop_monitoring

SpecStop == Init /\ [][NextStop]_vars

\* Every thread is scheduled again and again: the monitor thread, each display
\* loop, and the main thread in its wait loop.
FairStop ==
    /\ SpecStop
    /\ WF_vars(MonitorShort)
    /\ \A q \in Sinks : WF_vars(Consumer(q) \/ ConsumerExit(q))
    /\ WF_vars(StartMonitoringReturns)

\* The menu of main: a start_monitoring that has returned may be followed by
\* another one, on the same service.
NextRestart ==
    \/ StartMonitoring
    \/ StartMonitoringReturns
    \/ MonitorStart
    \/ MonitorIdleRaises
    \/ MonitorCycleMenu
    \/ MonitorNoData
    \/ MonitorPurge
    \/ MonitorFanOut
    \/ MonitorSleep
    \/ MonitorExit
    \/ \E q \in Sinks : Consumer(q) \/ ConsumerExit(q)
    \/ request_exit
    \/ stop_monitoring

SpecRestart == InitMenu /\ [][NextRestart]_vars

\* One start_monitoring that is stopped at any moment, and the roster listed
\* from the menu once it has returned; the monitor thread takes the cycle in
\* single steps.
NextList ==
    \/ monitor_pc = "init" /\ StartMonitoring
    \/ StartMonitoringReturns
    \/ MonitorStart
    \/ MonitorIdleRaises
    \/ MonitorClassify
    \/ MonitorApply
    \/ MonitorDelete
    \/ MonitorNoData
    \/ MonitorPurge
    \/ MonitorFanOut
    \/ MonitorSleep
    \/ MonitorExit
    \/ \E q \in Sinks : Consumer(q) \/ ConsumerExit(q)
    \/ request_exit
    \/ stop_monitoring
    \/ list_known_aircraft

SpecList == InitMenu /\ [][NextList]_vars

\* One start_monitoring from the menu of main, and a signal delivered to the
\* process at any moment; nothing runs in a process that has ended.
NextSignal ==
    \/ process.alive /\ NextStop
    \/ SigInt
    \/ SigTerm

SpecSignal == Init /\ [][NextSignal]_vars

\* One start_monitoring, after any outcome of initialize_displays.
SpecStartup == InitStartup /\ [][NextStop]_vars

\* One start_monitoring that is not stopped, what the displays show being
\* followed, and the iterations of the display loops that find nothing.
NextDisplay ==
    \/ monitor_pc = "init" /\ StartMonitoring
    \/ MonitorStartShowing(TRUE)
    \/ MonitorIdleRaisesShowing(TRUE)
    \/ MonitorCycleMenu
    \/ MonitorNoDataShowing(TRUE)
    \/ MonitorPurge
    \/ MonitorFanOut
    \/ MonitorSleep
    \/ \E q \in Sinks :
          \/ ConsumerPopShowing(q, TRUE)
          \/ ConsumerRenderedShowing(q, TRUE)
          \/ ConsumerFindsEmpty(q)
          \/ ConsumerWakes(q)

SpecDisplay == InitMenu /\ [][NextDisplay]_vars

\* The monitor service under any configured aircraft timeout.
SpecConfigured == InitConfigured /\ [][Next]_vars

\* One BaseDisplayService, its methods called from one thread and its display
\* loop in a thread of its own.
NextService ==
    \/ ServiceStart
    \/ ServiceStartAlive
    \/ ServiceStop
    \/ ServiceSetHistory
    \/ add_aircraft
    \/ remove_aircraft
    \/ _display_loop

SpecService == InitMenu /\ [][NextService]_vars

\* An LCDDisplayService or an OLEDDisplayService.
InitIdle ==
    /\ lcd_controller = FALSE
    /\ oled_controller = FALSE
    /\ displayed = [d \in Displays |-> "off"]
    /\ display_init = [d \in Displays |-> "disabled"]
    /\ Constructed
    /\ display_service \in
          {[NewDisplayService EXCEPT !.class = class] :
              class \in {"LCDDisplayService", "OLEDDisplayService"}}
    /\ config = DefaultConfig
    /\ alert_system = NewAlertSystem
    /\ sound_alert_service = NewSoundAlertService
    /\ api = NewClient("HexDBAPI")

NextIdle ==
    \/ NextService
    \/ DisplayLoopIdle

SpecIdle == InitIdle /\ [][NextIdle]_vars

\* An AirplaneAlertSystem and the caller of its check_for_new_aircraft.
SpecAlerts == InitMenu /\ [][check_for_new_aircraft]_vars

\* A PiPlaneSoundAlertService of any alert type, the thread that calls
\* play_aircraft_alert and the audio threads.
InitSound ==
    /\ lcd_controller = FALSE
    /\ oled_controller = FALSE
    /\ displayed = [d \in Displays |-> "off"]
    /\ display_init = [d \in Displays |-> "disabled"]
    /\ Constructed
    /\ display_service = NewDisplayService
    /\ config = DefaultConfig
    /\ alert_system = NewAlertSystem
    /\ sound_alert_service \in
          {[NewSoundAlertService EXCEPT !.alert_type = alert_type] :
              alert_type \in AlertTypes}
    /\ api = NewClient("HexDBAPI")

NextSound ==
    \/ SoundClock
    \/ PlayAircraftAlert
    \/ PlayAlertReturns
    \/ audio_thread

SpecSound == InitSound /\ [][NextSound]_vars

\* The calling thread is scheduled again and again; nothing is assumed of the
\* audio threads.
FairSound == SpecSound /\ WF_vars(PlayAlertReturns)

\* A client of any of the three classes and the thread that calls its
\* lookups one after the other.
InitApi ==
    /\ lcd_controller = FALSE
    /\ oled_controller = FALSE
    /\ displayed = [d \in Displays |-> "off"]
    /\ display_init = [d \in Displays |-> "disabled"]
    /\ Constructed
    /\ display_service = NewDisplayService
    /\ config = DefaultConfig
    /\ alert_system = NewAlertSystem
    /\ sound_alert_service = NewSoundAlertService
    /\ api \in {NewClient(class) : class \in ApiClasses}

NextApi ==
    \/ ApiClock
    \/ Lookup

SpecApi == InitApi /\ [][NextApi]_vars

\* The writers of the records of the roster, each reading of the clock being
\* one of its own.
NextClock ==
    \/ CallCreate
    \/ CallUpdate
    \/ ClockAdvances

SpecClock == InitMenu /\ [][NextClock]_vars

\* Monitoring with no stop requested, every consumer loop being scheduled
\* again and again (each is a thread of its own that sleeps 0.1 s between two
\* iterations, and a render returns).
FairSpec == Spec /\ \A q \in Sinks : WF_vars(Consumer(q))

\* ------------------------------------------------------------------ claims
\* The hex codes of the entries of a queue, falsy or not.
QueuedHexes(q) == {Queue(q)[i].hex : i \in DOMAIN Queue(q)}

\* The cycle has read truthy data, classified it without an exception and
\* _cleanup_old_aircrafts has deleted the old aircraft; the record of the
\* cycle (read_result, snapshot_hexes, history_before) is still there.
AfterCleanup ==
    /\ read_result = "dict"
    /\ outcome # "error"
    /\ monitor_pc \in {"purge", "fanout", "sleep"}

\* last_seen of h when _cleanup_old_aircrafts looked at it.
Age(h) == now - history_before[h].last_seen

\* A flight that is missing, empty or only whitespace.
BlankFlight(a) ==
    \/ a.flight = MissingKey
    \/ \A i \in DOMAIN a.flight : a.flight[i] = " "

\* C1: an id is returned in the new list at most once between two removals of
\* it.  An id is tracked from the cycle that returns it as new until
\* _cleanup_old_aircrafts removes it, so in every cycle the new list holds a
\* tracked id not at all and an untracked id at most once.
C1_NewAtMostOnce ==
    AfterCleanup =>
        \A h \in Hexes :
            Count(new_aircrafts, h) <=
                IF h \in DOMAIN history_before THEN 0 ELSE 1

\* C2 as stated: in every state, every hex held in a queue is a key of
\* aircraft_history.
C2_QueuedAreTracked ==
    \A q \in Sinks : QueuedHexes(q) \subseteq DOMAIN aircraft_history

\* C2 amended: in every state in which the monitor thread is not between the
\* deletion of the old aircraft from aircraft_history and the end of
\* _cleanup_queues_for_removed_aircraft, every hex held in a queue is a key of
\* aircraft_history.
C2_QueuedAreTrackedOutsidePurge ==
    monitor_pc # "purge" => C2_QueuedAreTracked

\* An aircraft was removed in this cycle, the queues were cleaned, and a queue
\* still holds an aircraft.
C2_Witness ==
    /\ monitor_pc \in {"fanout", "sleep"}
    /\ aircrafts_to_remove # {}
    /\ \E q \in Sinks : Queue(q) # <<>>

\* C3: in every state, each queue holds at most one entry per hex.
C3_OneEntryPerHex ==
    \A q \in Sinks : \A h \in Hexes : Count(Queue(q), h) <= 1

\* The consumer of sink q is rendering the aircraft with hex h.
Rendering(q, h) == consumer_pc[q] = Render(q) /\ aircraft[q].hex = h

\* C4: under fair scheduling of the consumers and with no stop requested, an
\* aircraft held in the queue of a sink is eventually rendered by the consumer
\* of that sink, or its id has expired from the roster; and an entry leaves a
\* queue only when the consumer renders it or when its id is no longer in the
\* roster.
C4_RenderedOrExpired ==
    /\ \A q \in Sinks : \A h \in Hexes :
          (h \in QueuedHexes(q)) ~>
              (Rendering(q, h) \/ h \notin DOMAIN aircraft_history)
    /\ [][\A q \in Sinks : \A h \in Hexes :
            Count(Queue(q)', h) < Count(Queue(q), h) =>
                (Rendering(q, h)' \/ h \notin DOMAIN aircraft_history')]_vars

\* A consumer is rendering an aircraft that it popped from its queue, while
\* its queue holds a later arrival.
C4_Witness ==
    \E q \in Sinks :
        /\ consumer_pc[q] = Render(q)
        /\ aircraft[q].hex \in DOMAIN aircraft_history
        /\ Queue(q) # <<>>

\* C5: an entry whose flight is missing, empty or only whitespace is never in
\* the new list and never in a queue (nor in the hands of a consumer).
C5_BlankNeverNew ==
    /\ \A i \in DOMAIN new_aircrafts : ~BlankFlight(new_aircrafts[i])
    /\ \A q \in Sinks :
          /\ \A i \in DOMAIN Queue(q) : ~BlankFlight(Queue(q)[i])
          /\ consumer_pc[q] = Render(q) => ~BlankFlight(aircraft[q])

\* The snapshot held an untracked hex that is not in the new list: all its
\* entries had a blank flight.
C5_Witness ==
    /\ AfterCleanup
    /\ \E h \in snapshot_hexes :
          h \notin DOMAIN history_before /\ h \notin HexCodes(new_aircrafts)

\* C6: _cleanup_old_aircrafts removes exactly the tracked ids that are not
\* among the hex codes passed to it and whose last_seen is more than 300 s
\* before the current time; every other id stays.
C6_RemovesExactlyOld ==
    AfterCleanup =>
        /\ aircrafts_to_remove =
              {h \in DOMAIN history_before :
                  /\ h \notin HexCodes(existing_aircrafts)
                  /\ Age(h) > ExpirySeconds}
        /\ DOMAIN aircraft_history =
              (DOMAIN history_before \cup HexCodes(new_aircrafts))
                  \ aircrafts_to_remove

\* One id aged exactly 300 s stays while an older one is removed.
C6_Witness ==
    /\ AfterCleanup
    /\ aircrafts_to_remove # {}
    /\ \E h \in DOMAIN history_before :
          /\ h \notin HexCodes(existing_aircrafts)
          /\ Age(h) = ExpirySeconds
          /\ h \in DOMAIN aircraft_history

\* C7: an id whose hex is in the snapshot of a cycle is not deleted from
\* aircraft_history in that cycle.
C7_PresentNeverExpired ==
    AfterCleanup => aircrafts_to_remove \cap snapshot_hexes = {}

\* C8: a tracked id whose last_seen is more than 300 s old and that is in the
\* snapshot with a non-empty flight is still tracked after the cycle, with
\* its first_seen unchanged and its last_seen updated.
C8_ReappearingKept ==
    AfterCleanup =>
        \A h \in DOMAIN history_before :
            (Age(h) > ExpirySeconds /\ h \in HexCodes(existing_aircrafts)) =>
                /\ h \in DOMAIN aircraft_history
                /\ aircraft_history[h].first_seen =
                      history_before[h].first_seen
                /\ aircraft_history[h].last_seen = now

\* An id older than 300 s has reappeared with a flight.
C8_Witness ==
    /\ AfterCleanup
    /\ \E h \in DOMAIN history_before :
          /\ Age(h) > ExpirySeconds
          /\ h \in HexCodes(existing_aircrafts)
          /\ h \in DOMAIN aircraft_history

\* C9: a tracked id that is not in the snapshot of a successful cycle and
\* whose age is more than 300 s is removed from aircraft_history in that
\* cycle (so in the first such cycle, and once: it is no longer tracked), and
\* when the cycle ends no queue holds an entry with the hex of a removed id.
C9_ExpiredOnceAndPurged ==
    /\ AfterCleanup =>
          \A h \in DOMAIN history_before :
              (h \notin snapshot_hexes /\ Age(h) > ExpirySeconds) =>
                  h \in aircrafts_to_remove /\ h \notin DOMAIN aircraft_history
    /\ (monitor_pc = "sleep" /\ outcome = "ok") =>
          \A q \in Sinks : QueuedHexes(q) \cap aircrafts_to_remove = {}

\* An id that was absent for more than 300 s has been deleted while a queue
\* holds an entry for it.
C9_Witness ==
    /\ AfterCleanup
    /\ \E h \in DOMAIN history_before :
          /\ h \notin snapshot_hexes
          /\ Age(h) > ExpirySeconds
          /\ \E q \in Sinks : h \in QueuedHexes(q)

\* C10: in a cycle whose read returns None the monitor thread changes neither
\* aircraft_history nor a queue, runs no classification, update or expiry,
\* and goes from the read to the sleep and on to the next cycle.
C10_FailedReadSkipsCycle ==
    /\ [](read_result = "None" =>
            /\ monitor_pc \in {"nodata", "sleep"}
            /\ aircraft_history = history_before
            /\ new_aircrafts = <<>> /\ existing_aircrafts = <<>>
            /\ aircrafts_to_remove = {}
            /\ outcome \in {"", "nodata"})
    /\ [][(monitor_pc' # monitor_pc
               /\ (read_result = "None" \/ read_result' = "None")) =>
            /\ UNCHANGED <<aircraft_history, queue_vars>>
            /\ <<monitor_pc, monitor_pc'>> \in
                  {<<"loop", "nodata">>, <<"nodata", "sleep">>,
                   <<"sleep", "loop">>}]_vars

\* The read failed while an aircraft older than 300 s is tracked and a queue
\* holds an aircraft; the loop is about to sleep.
C10_Witness ==
    /\ read_result = "None"
    /\ monitor_pc = "sleep"
    /\ \E h \in DOMAIN aircraft_history :
          now - aircraft_history[h].last_seen > ExpirySeconds
    /\ \E q \in Sinks : Queue(q) # <<>>

\* C11: classification never fails for the shape of the data: no cycle that
\* read a snapshot ends in the except handler of monitor_loop, where nothing
\* of the snapshot has been classified, applied or fanned out.
C11_ClassificationNeverFails ==
    read_result = "dict" => outcome # "error"

\* C12: no exception ends the poll loop: the monitor thread is never ended
\* by an exception.
C12_MonitorNeverEndedByException ==
    monitor_pc # "crashed"

\* C13: in each cycle every aircraft classified as new is appended exactly
\* once to the queue of each sink that has a controller (the console always
\* has) and to no other queue, and the queue of a sink without a controller
\* is always empty.
C13_NewAppendedOncePerActiveSink ==
    /\ [](\A q \in Sinks : ~Enabled(q) => Queue(q) = <<>>)
    /\ [][(monitor_pc = "fanout" /\ monitor_pc' = "sleep") =>
            \A q \in Sinks : \A h \in HexCodes(new_aircrafts) :
                Count(Queue(q)', h) =
                    Count(Queue(q), h) + IF Enabled(q) THEN 1 ELSE 0]_vars

\* C14: a pop by the consumer of one sink changes the queue of that sink
\* only: the other two queues and the roster are the same after it.
C14_PopChangesOwnQueueOnly ==
    [][\A q \in Sinks :
        (monitor_pc' = monitor_pc /\ Len(Queue(q)') < Len(Queue(q))) =>
            /\ Queue(q)' = Tail(Queue(q))
            /\ \A r \in Sinks \ {q} : Queue(r)' = Queue(r)
            /\ aircraft_history' = aircraft_history]_vars

\* One sink has drained its queue and is rendering, and the queue of another
\* sink still holds one arrival.
C14_Witness ==
    \E q \in Sinks : \E r \in Sinks \ {q} :
        /\ consumer_pc[q] = Render(q)
        /\ Queue(q) = <<>>
        /\ Len(Queue(r)) = 1

\* s is the beginning of t.
IsPrefix(s, t) == Len(s) <= Len(t) /\ SubSeq(t, 1, Len(s)) = s

\* C15: a queue is first in, first out: a pop takes the head (and the head
\* is what is rendered), the fan-out appends behind what is queued, and a
\* purge leaves the entries that remain in the order they were in.
C15_FirstInFirstOut ==
    [][\A q \in Sinks :
        \/ Queue(q)' = Queue(q)
        \/ /\ monitor_pc' = monitor_pc
           /\ Queue(q) # <<>>
           /\ Queue(q)' = Tail(Queue(q))
           /\ consumer_pc'[q] = Render(q) => aircraft'[q] = Head(Queue(q))
        \/ /\ monitor_pc = "fanout"
           /\ IsPrefix(Queue(q), Queue(q)')
        \/ /\ monitor_pc = "purge"
           /\ Queue(q)' =
                 SelectSeq(Queue(q), LAMBDA a : a \in Range(Queue(q)'))]_vars

\* A purge has removed an aircraft and a queue holds two different aircraft
\* after it.
C15_Witness ==
    /\ monitor_pc \in {"fanout", "sleep"}
    /\ aircrafts_to_remove # {}
    /\ read_result = ""
    /\ \E q \in Sinks : Len(Queue(q)) >= 2 /\ Queue(q)[1] # Queue(q)[2]

\* C16: the lock of a queue is not held while the consumer of that queue is
\* in a render call.
C16_LockFreeDuringRender ==
    \A q \in Sinks : consumer_pc[q] = Render(q) => Lock(q) = "free"

\* C17: while the LCD or OLED consumer is in a render call the monitor thread
\* does not have to wait: its purge of the queues and its fan-out of the new
\* arrivals can be done.
C17_RenderBlocksNobody ==
    \A q \in {"lcd", "oled"} :
        consumer_pc[q] = Render(q) =>
            /\ monitor_pc = "purge" => ENABLED MonitorPurge
            /\ monitor_pc = "fanout" => ENABLED MonitorFanOut

\* No loop of monitoring is alive and start_monitoring has returned.
AllEnded == main_pc = "menu" /\ \A r \in Roles : threads[r] = 0

\* C19: once exit_requested is set, and with no later start_monitoring, the
\* poll loop that tests the flag starts no new cycle, a display loop that
\* tests it ends and one that is in a render finishes the render first, and
\* eventually start_monitoring has returned and no loop is alive, for good.
C19_StopsCooperatively ==
    /\ exit_requested ~> AllEnded
    /\ [][exit_requested =>
            /\ monitor_pc = "loop" => monitor_pc' \in {"loop", "done"}
            /\ monitor_pc = "done" => monitor_pc' = "done"
            /\ \A q \in Sinks :
                  /\ consumer_pc[q] = "loop" =>
                        consumer_pc'[q] \in {"loop", "done"}
                  /\ consumer_pc[q] = Render(q) =>
                        consumer_pc'[q] \in {Render(q), "loop"}
                  /\ consumer_pc[q] = "done" => consumer_pc'[q] = "done"
            /\ AllEnded => AllEnded']_vars

\* Monitoring with an LCD attached and an aircraft tracked was stopped, and
\* every loop has ended and left its lock free.
C19_Witness ==
    /\ AllEnded
    /\ exit_requested
    /\ consumer_pc["lcd"] = "done"
    /\ lcd_queue_lock = "free"
    /\ aircraft_history # EmptyHistory

\* C18: whatever the sequence of start_monitoring, request_exit or
\* stop_monitoring and start_monitoring again, at most one monitor loop and at
\* most one display loop per sink is alive at any time.
C18_OneLoopPerRole == \A r \in Roles : threads[r] <= 1

\* The roster the cycle in progress leaves when its mutations are done.
RosterAfterCycle ==
    _update_aircraft_history(history_before, new_aircrafts,
                             existing_aircrafts, now)[1]

\* C20: when list_known_aircraft reads the roster while the monitor thread is
\* within the mutations of a poll cycle, what it reads is the roster as it was
\* before those mutations or as it is after them.
C20_ListSeesBeforeOrAfter ==
    [][(/\ lister.pc = "items"
        /\ lister'.pc = "print"
        /\ monitor_pc \in {"apply", "delete"})
          => lister'.items \in {history_before, RosterAfterCycle}]_vars


\* The cycle has read a dict that is not empty and has ended its try block
\* up to the deletion of the old aircraft, or has left it by an exception;
\* the record of the cycle is still there.
AfterTruthyRead ==
    /\ read_result = "dict"
    /\ monitor_pc \in {"purge", "fanout", "sleep"}

\* C21: when a tracked id is in the snapshot of a cycle with a non-empty
\* flight, that cycle sets its last_seen to the current time, leaves its
\* first_seen as it was and does not return it in the new list; and a step
\* that adds an entry with some hex to a queue is the fan-out of a new list
\* that holds that hex.
C21_ReappearingIsUpdated ==
    /\ [](AfterTruthyRead =>
            \A h \in DOMAIN history_before \cap snapshot_valid :
                /\ h \in DOMAIN aircraft_history
                /\ aircraft_history[h].last_seen = now
                /\ aircraft_history[h].first_seen = history_before[h].first_seen
                /\ Count(new_aircrafts, h) = 0)
    /\ [][\A q \in Sinks : \A h \in Hexes :
            Count(Queue(q)', h) > Count(Queue(q), h) =>
                monitor_pc = "fanout" /\ Count(new_aircrafts, h) > 0]_vars

\* C22: of the entries of one snapshot with the same hex only the first is
\* processed: after the cycle the new list and the existing list together
\* hold that hex at most once, and the fan-out of the cycle adds at most one
\* entry with that hex to each queue.
C22_FirstOccurrenceOnly ==
    /\ [](AfterTruthyRead =>
            \A h \in Hexes :
                Count(new_aircrafts, h) + Count(existing_aircrafts, h) <= 1)
    /\ [][monitor_pc = "fanout" /\ monitor_pc' = "sleep" =>
            \A q \in Sinks : \A h \in Hexes :
                Count(Queue(q)', h) <= Count(Queue(q), h) + 1]_vars

\* C23: when an id that was deleted from the roster is in the snapshot of a
\* later cycle with a non-empty flight and is not tracked, that cycle returns
\* it in the new list and creates its record with first_seen the current
\* time, and the fan-out of the cycle appends it to every active queue.
C23_ExpiredIsNewAgain ==
    /\ [](AfterTruthyRead =>
            \A h \in (expired \cap snapshot_valid) \ DOMAIN history_before :
                /\ Count(new_aircrafts, h) >= 1
                /\ h \in DOMAIN aircraft_history
                /\ aircraft_history[h].first_seen = now)
    /\ [][monitor_pc = "fanout" /\ monitor_pc' = "sleep" =>
            \A q \in Sinks : \A h \in expired \cap HexCodes(new_aircrafts) :
                Enabled(q) => Count(Queue(q)', h) > Count(Queue(q), h)]_vars

\* C27: _get_new_and_existing_aircrafts returns a partition of the snapshot
\* that the roster it was called with determines: after a cycle has read a
\* snapshot, every hex that the snapshot holds with a non-empty flight
\* is in the existing list and not in the new list when it was a key of the
\* roster, and in the new list and not in the existing list when it was not;
\* and the lists hold no other hex.
C27_PartitionOfSnapshot ==
    AfterTruthyRead =>
        /\ HexCodes(existing_aircrafts) =
              snapshot_valid \cap DOMAIN history_before
        /\ HexCodes(new_aircrafts) = snapshot_valid \ DOMAIN history_before

\* C25: in every state every record of the roster has first_seen <= last_seen,
\* and every position of the record has a timestamp >= its first_seen.
C25_FirstSeenIsEarliest ==
    \A h \in DOMAIN aircraft_history :
        /\ aircraft_history[h].first_seen <= aircraft_history[h].last_seen
        /\ \A i \in DOMAIN aircraft_history[h].positions :
              aircraft_history[h].positions[i] >= aircraft_history[h].first_seen

\* A record that was updated after the clock had advanced, with a position
\* from its creation and one from the update.
C25_Witness ==
    \E h \in DOMAIN aircraft_history :
        /\ aircraft_history[h].first_seen < aircraft_history[h].last_seen
        /\ Len(aircraft_history[h].positions) = 2
        /\ aircraft_history[h].positions[1] < aircraft_history[h].positions[2]

\* C26: a record that a step inserts into the roster has first_seen =
\* last_seen right after that step.
C26_CreatedWithOneTimestamp ==
    [][\A h \in Hexes :
        (h \notin DOMAIN aircraft_history /\ h \in DOMAIN aircraft_history') =>
            aircraft_history'[h].first_seen = aircraft_history'[h].last_seen]_vars

\* C24: the queue of a BaseDisplayService never holds two entries with one
\* hex, and when add_aircraft returns the queue holds exactly one entry with
\* the hex it was given: the one that was there, or else the one given,
\* appended at the tail, as after a pop of the earlier entry.
C24_PushIsIdempotent ==
    /\ [](\A h \in {"a", "b", "c"} : Count(display_service.queue, h) <= 1)
    /\ [][(/\ display_service.queue_lock = "add_aircraft"
            /\ display_service'.queue_lock = "free") =>
              /\ Count(display_service'.queue, display_service.adding.hex) = 1
              /\ \/ display_service'.queue = display_service.queue
                 \/ display_service'.queue =
                        Append(display_service.queue, display_service.adding)]_vars

\* Aircraft a was popped and is being processed, was queued again after the
\* pop, and one more add_aircraft of a has found it in the queue.
C24_Witness ==
    /\ display_service.thread = "process"
    /\ display_service.aircraft.hex = "a"
    /\ Count(display_service.queue, "a") = 1
    /\ display_service.queue_lock = "add_aircraft"
    /\ display_service.adding.hex = "a"
    /\ "a" \in display_service.existing_hex_codes

\* C28: a process that a signal has ended has called stop_monitoring, so that
\* the loops of the monitor and of the displays are told to stop, and has
\* called cleanup on every display controller that was initialised.
C28_SignalShutsDownGracefully ==
    (~process.alive /\ process.signal \in {"SIGINT", "SIGTERM"}) =>
        /\ process.stop_monitoring
        /\ ~running
        /\ exit_requested
        /\ process.cleanup = {d \in Displays : Enabled(d)}

\* C29: when the controller of a display was not initialised, the constructor
\* having raised or the library of the display missing, monitoring runs: the
\* monitor thread does not end before its loop (unless it is an initialised
\* OLED that makes it end, see C12), and no loop is started for a display
\* whose constructor raised.
C29_InitFailureDisablesSink ==
    \A d \in Displays :
        display_init[d] \in {"raised", "unavailable"} =>
            /\ display_init[d] = "raised" => ~Enabled(d) /\ threads[d] = 0
            /\ display_init["oled"] # "ok" => monitor_pc # "crashed"

\* C30: the iteration of the LCD or OLED loop that finds the queue empty
\* while the display still shows the arrival the loop rendered, renders the
\* idle presentation on that display.
C30_IdleRenderedOnEmptyQueue ==
    [][\A q \in Displays :
          (/\ consumer_pc[q] = "loop"
           /\ consumer_pc'[q] = "sleep"
           /\ displayed[q] = "aircraft") =>
              displayed'[q] = "idle"]_vars

\* C36: in every state every key of aircraft_history is a hex that is not
\* empty, and the flight of its record is a string that is not empty and has
\* no whitespace at either end.
C36_OnlyIdentifiedTracked ==
    \A h \in DOMAIN aircraft_history :
        /\ h \notin {"", MissingHex}
        /\ aircraft_history[h].flight \notin {MissingKey, NoneValue, <<>>}
        /\ aircraft_history[h].flight[1] # " "
        /\ aircraft_history[h].flight[Len(aircraft_history[h].flight)] # " "

\* A cycle has read a snapshot that holds b without a flight and has applied
\* it: a is tracked, b is not.
C36_Witness ==
    /\ AfterCleanup
    /\ "b" \in snapshot_hexes \ snapshot_valid
    /\ "b" \notin DOMAIN aircraft_history
    /\ "a" \in DOMAIN aircraft_history

\* A cycle has read a snapshot and has classified and applied it.
AfterClassified ==
    /\ read_result = "dict"
    /\ \/ monitor_pc \in {"purge", "fanout"}
       \/ monitor_pc = "sleep" /\ outcome = "ok"

\* C37: when a hex that an earlier cycle read without a flight, and that is
\* not tracked, is in the snapshot of a cycle with a non-empty flight and the
\* cycle classifies the snapshot, the cycle returns it in the new list and
\* creates its record, and the fan-out of the cycle appends it to every
\* active queue.
C37_LateCallsignIsArrival ==
    /\ [](AfterClassified =>
            \A h \in (unidentified \cap snapshot_valid) \ DOMAIN history_before :
                /\ Count(new_aircrafts, h) >= 1
                /\ h \in DOMAIN aircraft_history)
    /\ [][monitor_pc = "fanout" /\ monitor_pc' = "sleep" =>
            \A q \in Sinks : \A h \in unidentified \cap HexCodes(new_aircrafts) :
                Enabled(q) => Count(Queue(q)', h) > Count(Queue(q), h)]_vars

\* An earlier cycle read a without a flight; this cycle read a and b, both
\* with a flight, and a is new.
C37_Witness ==
    /\ AfterClassified
    /\ "a" \in unidentified
    /\ snapshot_valid = {"a", "b"}
    /\ "a" \notin DOMAIN history_before
    /\ Count(new_aircrafts, "a") = 1
    /\ monitor_pc = "fanout"

\* C32: with the aircraft timeout T of the configuration,
\* _cleanup_old_aircrafts removes exactly the tracked ids that are not among
\* the hex codes passed to it and whose last_seen is more than T seconds
\* before the current time.
C32_ThresholdIsConfigured ==
    AfterCleanup =>
        aircrafts_to_remove =
            {h \in DOMAIN history_before :
                /\ h \notin HexCodes(existing_aircrafts)
                /\ Age(h) > config.alerts_aircraft_timeout}

\* C38: while the loop of the LCD or of the OLED is in the render of an
\* aircraft, from display_new_aircraft_detected until display_aircraft_info
\* has been called, the hex of the aircraft is a key of aircraft_history.
C38_RenderedIsTracked ==
    \A q \in Displays :
        consumer_pc[q] = Render(q) => aircraft[q].hex \in DOMAIN aircraft_history

\* C39: display_error("No data") of the monitor thread is not called on a
\* display while the loop of that display is inside
\* display_new_aircraft_detected or display_aircraft_info.
C39_OneCallPerController ==
    [][monitor_pc = "nodata" /\ monitor_pc' = "sleep" =>
          \A d \in Displays : Enabled(d) => consumer_pc[d] # Render(d)]_vars

\* C40: when the last of the calls of start() and stop() on a
\* BaseDisplayService was start(), its display loop is running and
\* exit_requested is false.
C40_StartLeavesRunning ==
    display_service.last_call = "start" =>
        /\ display_service.thread \in {"loop", "process"}
        /\ ~display_service.exit_requested

\* C31 as it was stated: display_idle_message is never called twice without
\* a call of _process_aircraft in between, and a period in which the queue
\* is empty after an arrival was rendered does not end, with the next
\* add_aircraft, before the idle message has been shown.
C31_IdleOncePerEmptyPeriod ==
    /\ [](display_service.idle_calls <= 1)
    /\ [][(/\ display_service.queue = <<>>
            /\ display_service'.queue # <<>>
            /\ display_service.thread = "loop") =>
              display_service.last_state = "idle"]_vars

\* C31: display_idle_message is called only by an iteration of the display
\* loop that finds the queue empty while _last_state is "aircraft", that is
\* after a _process_aircraft that returned and before any call of it has
\* returned; so between two calls of _process_aircraft at most one call of
\* display_idle_message returns, and none is made before the first arrival.
C31_IdleOncePerRender ==
    /\ [](display_service.idle_returned <= 1)
    /\ [][display_service'.idle_calls > display_service.idle_calls =>
              /\ display_service.queue = <<>>
              /\ display_service.last_state = "aircraft"
              /\ display_service.idle_returned = 0]_vars

\* An arrival was rendered, the loop then found the queue empty and showed
\* the idle message, once, and waits with the queue still empty.
C31_Witness ==
    /\ display_service.class = "LCDDisplayService"
    /\ display_service.idle_calls = 1
    /\ display_service.idle_returned = 1
    /\ display_service.last_state = "idle"
    /\ display_service.thread = "loop"
    /\ display_service.queue = <<>>

\* C33: in a call of check_for_new_aircraft every callback is invoked once,
\* with the whole list of the new aircraft of the call, when the call has
\* found new aircraft, and is not invoked when it has found none.
C33_EachCallbackOncePerCall ==
    \A c \in Callbacks :
        alert_system.invoked[c] =
            IF alert_system.new_aircraft # <<>>
            THEN <<alert_system.new_aircraft>>
            ELSE <<>>

\* C34: a play_aircraft_alert that has started its playback returns, to a
\* caller that is not failed, whatever the playback does: also when the
\* playback never ends, and when it fails.
C34_FireAndForget ==
    /\ [](sound_alert_service.caller \in {"idle", "started"})
    /\ (sound_alert_service.caller = "started")
          ~> (sound_alert_service.caller = "idle"
                /\ sound_alert_service.result = "started")

\* play_aircraft_alert has returned while the playback it started runs, an
\* earlier playback having failed.
C34_Witness ==
    /\ sound_alert_service.caller = "idle"
    /\ sound_alert_service.result = "started"
    /\ Len(sound_alert_service.playbacks) = 2
    /\ sound_alert_service.playbacks[1] = "failed"
    /\ sound_alert_service.playbacks[2] = "running"

\* C35: of the lookups of one client, made one after the other, two
\* consecutive ones that miss the cache leave their rate limiting at least
\* the rate limit apart.
C35_LookupsRateLimited ==
    Len(api.issued) = 2 => api.issued[2] - api.issued[1] >= RateLimit

====
